---- MODULE Spec2Model ----
(***************************************************************************)
(* Headplane configuration loading: app/server/config/loader.ts and        *)
(* app/server/config/schema.ts.                                            *)
(*                                                                         *)
(* JavaScript values are tagged records.  A string is a sequence of        *)
(* one-character tokens; the only multi-character token is an              *)
(* interpolation marker such as "${SECRETS_DIR}", which stands for that    *)
(* substring of a path.  An object is a function from its own keys to      *)
(* values; a key may hold Undefined, which differs from the key missing.   *)
(***************************************************************************)
EXTENDS Integers, Sequences, FiniteSets, TLC

VARIABLES
    pc,         \* position of loadConfig, or of the function under test
    call,       \* arguments of the function under test (function-level specifications)
    ret,        \* what that function returned
    loadEnv,    \* EnvOverrides.loadEnv
    debugEnabled, \* log.debugEnabled
    disk,       \* the configuration file, the secret files and the .env file
    env,        \* process.env: the variables that are set, each with its string
    startEnv,   \* process.env as it was when loadConfig was called
    data,       \* what loadConfigFile returned
    config,     \* the configuration document while it is built
    resolved,   \* the document as secret resolution left it
    reads,      \* the paths loadSecretFromFile called readFile on
    trace,      \* the stages entered, in order
    failed,     \* the stage that failed, "" while none has
    exitCode,   \* the status exit() was called with, -1 while it was not
    returned    \* what loadConfig returned

loaderVars == <<loadEnv, debugEnabled, disk, env, startEnv, data, config, resolved, reads, trace,
                failed, exitCode, returned>>

vars == <<pc, call, ret, loaderVars>>

-----------------------------------------------------------------------------
(* JavaScript values *)

Undefined == [t |-> "undefined"]
Null      == [t |-> "null"]
Str(s)    == [t |-> "string", s |-> s]
Num(n)    == [t |-> "number", n |-> n]
Bool(b)   == [t |-> "boolean", b |-> b]
Arr(e)    == [t |-> "array", e |-> e]
Obj(f)    == [t |-> "object", f |-> f]
NaN       == [t |-> "number", nan |-> TRUE]

NoProps == [k \in {} |-> Undefined]

\* typeof v
TypeOf(v) ==
    IF v.t \in {"object", "array", "null"} THEN "object" ELSE v.t

\* the own enumerable keys of v, as for...in and object spread see them
OwnKeys(v) ==
    CASE v.t = "object" -> DOMAIN v.f
      [] v.t = "array"  -> {ToString(i - 1) : i \in 1..Len(v.e)}
      [] OTHER          -> {}

IndexOf(v, k) == CHOOSE i \in 1..Len(v.e) : ToString(i - 1) = k

\* v[k]
Prop(v, k) ==
    IF k \notin OwnKeys(v) THEN Undefined
    ELSE IF v.t = "array" THEN v.e[IndexOf(v, k)]
    ELSE v.f[k]

\* !v
Falsy(v) ==
    \/ v.t \in {"undefined", "null"}
    \/ v.t = "string" /\ v.s = <<>>
    \/ v.t = "number" /\ ("nan" \in DOMAIN v \/ v.n = 0)
    \/ v.t = "boolean" /\ ~v.b

\* v == null
LooseNull(v) == v.t \in {"undefined", "null"}

-----------------------------------------------------------------------------
(* deepMerge: loader.ts 274-294 *)

\* a merge that assigns every override value without recursing
deepMergeShallow(target, source) ==
    IF TypeOf(target) # "object" \/ TypeOf(source) # "object" THEN source
    ELSE Obj([k \in OwnKeys(target) \cup {j \in OwnKeys(source) : Prop(source, j) # Undefined} |->
                IF k \in OwnKeys(source) /\ Prop(source, k) # Undefined
                THEN Prop(source, k)
                ELSE Prop(target, k)])

RECURSIVE deepMerge(_, _)
deepMerge(target, source) ==
    IF TypeOf(target) # "object" \/ TypeOf(source) # "object" THEN source
    ELSE \* result = { ...target }, then one assignment per key of source
         Obj([k \in OwnKeys(target) \cup {j \in OwnKeys(source) : Prop(source, j) # Undefined} |->
                IF k \in OwnKeys(source) /\ Prop(source, k) # Undefined
                THEN IF TypeOf(Prop(source, k)) = "object"
                     THEN deepMerge(Prop(target, k), Prop(source, k))
                     ELSE Prop(source, k)
                ELSE Prop(target, k)])

-----------------------------------------------------------------------------
(* Strings *)

Chars(n, c) == [i \in 1..n |-> c]

EndsWith(s, c) == Len(s) > 0 /\ s[Len(s)] = c

\* s.slice(0, -1)
DropLast(s) == SubSeq(s, 1, Len(s) - 1)

Digits == <<"0", "1", "2", "3", "4", "5", "6", "7", "8", "9">>

DigitValue(c) == (CHOOSE i \in 1..10 : Digits[i] = c) - 1

RECURSIVE Decimal(_)
Decimal(s) ==
    IF s = <<>> THEN 0 ELSE 10 * Decimal(DropLast(s)) + DigitValue(s[Len(s)])

\* Number(v) of a string or a number: decimal digits convert, the empty string
\* is 0, any other string is NaN
ToNumber(v) ==
    IF v.t = "number" THEN v
    ELSE IF \A i \in 1..Len(v.s) : \E d \in 1..10 : Digits[d] = v.s[i]
         THEN Num(Decimal(v.s))
         ELSE NaN

\* arktype's string.ip, narrowed to dotted digits
IsIp(s) ==
    /\ Len(s) > 0
    /\ \A i \in 1..Len(s) : s[i] = "." \/ \E d \in 1..10 : Digits[d] = s[i]

UrlScheme == <<"h", ":", "/", "/">>

\* arktype's string.url (the string parses as a URL): a scheme and a host,
\* followed by anything, trailing slashes included
IsUrl(s) ==
    /\ Len(s) > Len(UrlScheme)
    /\ SubSeq(s, 1, Len(UrlScheme)) = UrlScheme
    /\ s[Len(UrlScheme) + 1] # "/"

-----------------------------------------------------------------------------
(* schema.ts.  A schema is a sequence of fields; a field names its key,      *)
(* whether the key is required, the type of its value and, where the schema  *)
(* gives one, a default.  Documents hold declared keys only: what arktype    *)
(* does with undeclared keys is not modelled.                                *)

NoDefault == [t |-> "nodefault"]

Field(key, req, kind) == [key |-> key, req |-> req, kind |-> kind, sub |-> "", dflt |-> NoDefault]
Defaulted(key, kind, dflt) == [key |-> key, req |-> FALSE, kind |-> kind, sub |-> "", dflt |-> dflt]
Section(key, req, sub) == [key |-> key, req |-> req, kind |-> "object", sub |-> sub, dflt |-> NoDefault]

CookieSecretLength == 32

AuthMethods ==
    {Str(<<"b">>), Str(<<"p">>), Str(<<"j">>)}   \* client_secret_basic, _post, _jwt

AgentDefault ==
    Obj([authkey |-> Str(<<>>), ttl |-> Num(180000), cache_path |-> Str(<<"/", "a">>)])

agentConfig ==
    << Defaulted("authkey", "string", Str(<<>>)),
       Defaulted("ttl", "integer", Num(180000)),
       Defaulted("cache_path", "string", Str(<<"/", "a">>)) >>

serverConfig ==
    << Field("host", TRUE, "string.ip"),
       Field("port", TRUE, "port"),
       Field("cookie_secret", TRUE, "cookie_secret"),
       Field("cookie_secret_path", FALSE, "string"),
       Field("cookie_secure", TRUE, "stringToBool"),
       [key |-> "agent", req |-> FALSE, kind |-> "object", sub |-> "agentConfig", dflt |-> AgentDefault] >>

oidcConfig ==
    << Field("issuer", TRUE, "string.url"),
       Field("client_id", TRUE, "string"),
       Field("client_secret", TRUE, "string|null"),
       Field("client_secret_path", FALSE, "string"),
       Field("token_endpoint_auth_method", TRUE, "authMethod"),
       Field("redirect_uri", FALSE, "string.url"),
       Defaulted("user_storage_file", "string", Str(<<"/", "u">>)),
       Field("disable_api_key_login", TRUE, "stringToBool"),
       Field("headscale_api_key", TRUE, "string"),
       Field("headscale_api_key_path", FALSE, "string"),
       Defaulted("strict_validation", "stringToBool", Bool(TRUE)) >>

headscaleConfig ==
    << Field("url", TRUE, "url"),
       Field("tls_cert_path", FALSE, "string"),
       Field("public_url", FALSE, "string.url"),
       Field("config_path", FALSE, "string"),
       Field("config_strict", TRUE, "stringToBool") >>

procConfig == << Field("enabled", TRUE, "stringToBool") >>

integrationConfig == << Section("proc", FALSE, "procConfig") >>

partialAgentConfig ==
    << Field("authkey", FALSE, "string"),
       Field("ttl", FALSE, "integer"),
       Field("cache_path", FALSE, "string") >>

partialServerConfig ==
    << Field("host", FALSE, "string.ip"),
       Field("port", FALSE, "port"),
       Field("cookie_secret", FALSE, "string|null"),
       Field("cookie_secret_path", FALSE, "string"),
       Field("cookie_secure", TRUE, "stringToBool"),
       Section("agent", FALSE, "partialAgentConfig") >>

partialOidcConfig ==
    << Field("issuer", FALSE, "string.url"),
       Field("client_id", FALSE, "string"),
       Field("client_secret", FALSE, "string|null"),
       Field("client_secret_path", FALSE, "string"),
       Field("token_endpoint_auth_method", FALSE, "authMethod"),
       Field("redirect_uri", FALSE, "string.url"),
       Field("user_storage_file", FALSE, "string"),
       Field("disable_api_key_login", TRUE, "stringToBool"),
       Field("headscale_api_key", FALSE, "string"),
       Field("headscale_api_key_path", FALSE, "string"),
       Field("strict_validation", TRUE, "stringToBool") >>

partialHeadscaleConfig ==
    << Field("url", FALSE, "url"),
       Field("tls_cert_path", FALSE, "string"),
       Field("public_url", FALSE, "string.url"),
       Field("config_path", FALSE, "string"),
       Field("config_strict", TRUE, "stringToBool") >>

partialIntegrationConfig == << Section("proc", FALSE, "procConfig") >>

headplaneConfigFields ==
    << Field("debug", TRUE, "stringToBool"),
       Section("server", TRUE, "serverConfig"),
       Section("oidc", FALSE, "oidcConfig"),
       Section("integration", FALSE, "integrationConfig"),
       Section("headscale", TRUE, "headscaleConfig") >>

partialHeadplaneConfigFields ==
    << Field("debug", TRUE, "stringToBool"),
       Section("server", TRUE, "partialServerConfig"),
       Section("oidc", FALSE, "partialOidcConfig"),
       Section("integration", FALSE, "partialIntegrationConfig"),
       Section("headscale", TRUE, "partialHeadscaleConfig") >>

SchemaOf(name) ==
    CASE name = "agentConfig"                -> agentConfig
      [] name = "serverConfig"               -> serverConfig
      [] name = "oidcConfig"                 -> oidcConfig
      [] name = "headscaleConfig"            -> headscaleConfig
      [] name = "procConfig"                 -> procConfig
      [] name = "integrationConfig"          -> integrationConfig
      [] name = "partialAgentConfig"         -> partialAgentConfig
      [] name = "partialServerConfig"        -> partialServerConfig
      [] name = "partialOidcConfig"          -> partialOidcConfig
      [] name = "partialHeadscaleConfig"     -> partialHeadscaleConfig
      [] name = "partialIntegrationConfig"   -> partialIntegrationConfig
      [] name = "headplaneConfig"            -> headplaneConfigFields
      [] name = "partialHeadplaneConfig"     -> partialHeadplaneConfigFields

\* the value satisfies the field's type, before any morph runs
RECURSIVE Conforms(_, _)
Fits(kind, sub, v) ==
    CASE kind = "string"        -> v.t = "string"
      [] kind = "string|null"   -> v.t \in {"string", "null"}
      [] kind = "cookie_secret" -> v.t \in {"string", "null"}
      [] kind = "string.ip"     -> v.t = "string" /\ IsIp(v.s)
      [] kind = "string.url"    -> v.t = "string" /\ IsUrl(v.s)
      [] kind = "url"           -> v.t = "string" /\ IsUrl(v.s)
      [] kind = "stringToBool"  -> v.t \in {"string", "boolean"}
      [] kind = "port"          -> v.t \in {"string", "number"}
      [] kind = "integer"       -> v.t = "number"
      [] kind = "authMethod"    -> v \in AuthMethods
      [] kind = "object"        -> Conforms(sub, v)

Conforms(name, v) ==
    /\ v.t = "object"
    /\ \A i \in 1..Len(SchemaOf(name)) :
          LET f == SchemaOf(name)[i]
          IN  IF f.key \in DOMAIN v.f THEN Fits(f.kind, f.sub, v.f[f.key]) ELSE ~f.req

\* the pipes that throw: the cookie_secret length (schema.ts 7-11) and the
\* either-or checks of serverConfig (25-30) and oidcConfig (45-52), each on
\* the section as validated
PipeThrows(name, v) ==
    CASE name = "serverConfig" ->
            (LooseNull(Prop(v, "cookie_secret")) <=> LooseNull(Prop(v, "cookie_secret_path")))
      [] name = "oidcConfig" ->
            \/ (LooseNull(Prop(v, "client_secret")) <=> LooseNull(Prop(v, "client_secret_path")))
            \/ (LooseNull(Prop(v, "headscale_api_key")) <=> LooseNull(Prop(v, "headscale_api_key_path")))
      [] OTHER -> FALSE

RECURSIVE Throws(_, _)
Throws(name, v) ==
    \/ PipeThrows(name, v)
    \/ \E i \in 1..Len(SchemaOf(name)) :
          LET f == SchemaOf(name)[i]
          IN  /\ f.key \in DOMAIN v.f
              /\ \/ f.kind = "cookie_secret" /\ v.f[f.key].t = "string"
                      /\ Len(v.f[f.key].s) # CookieSecretLength
                 \/ f.kind = "object" /\ Throws(f.sub, v.f[f.key])

\* the value the morphs produce
RECURSIVE Morphed(_, _)
MorphedField(kind, sub, v) ==
    CASE kind = "stringToBool" -> Bool(~Falsy(v))
      [] kind = "port"         -> ToNumber(v)
      [] kind = "url"          -> IF EndsWith(v.s, "/") THEN Str(DropLast(v.s)) ELSE v
      [] kind = "object"       -> Morphed(sub, v)
      [] OTHER                 -> v

Morphed(name, v) ==
    LET fields  == SchemaOf(name)
        idx(k)  == CHOOSE i \in 1..Len(fields) : fields[i].key = k
        present == {fields[i].key : i \in {j \in 1..Len(fields) : fields[j].key \in DOMAIN v.f}}
        filled  == {fields[i].key : i \in {j \in 1..Len(fields) :
                        fields[j].key \notin DOMAIN v.f /\ fields[j].dflt # NoDefault}}
    IN  Obj([k \in present \cup filled |->
                IF k \in present
                THEN MorphedField(fields[idx(k)].kind, fields[idx(k)].sub, v.f[k])
                ELSE fields[idx(k)].dflt])

Errors == [t |-> "errors"]     \* an instance of type.errors
Thrown == [t |-> "thrown"]     \* an Error thrown by a pipe, which arktype does not catch

\* applying a type: type.errors, a thrown Error, or the morphed value
Validate(name, v) ==
    IF ~Conforms(name, v) THEN Errors
    ELSE IF Throws(name, v) THEN Thrown
    ELSE Morphed(name, v)

headplaneConfig(v) == Validate("headplaneConfig", v)

partialHeadplaneConfig(v) == Validate("partialHeadplaneConfig", v)

\* validateConfig and coalesceConfig: undefined on type.errors, the value
\* otherwise; a thrown Error passes through both
validateConfig(cfg) ==
    IF headplaneConfig(cfg) = Errors THEN Undefined ELSE headplaneConfig(cfg)

coalesceConfig(cfg) ==
    IF partialHeadplaneConfig(cfg) = Errors THEN Undefined ELSE partialHeadplaneConfig(cfg)

-----------------------------------------------------------------------------
(* loadSecretFromFile: loader.ts 76-119 *)

\* the interpolation markers and, for each, match.slice(2, -1): the name of
\* the environment variable it refers to
MarkerNames ==
    [m \in {"${SECRETS_DIR}", "${STATE}"} |->
        IF m = "${SECRETS_DIR}" THEN <<"SECRETS_DIR">> ELSE <<"STATE">>]

IsMarker(tok) == tok \in DOMAIN MarkerNames

\* path.match(/\${(.*?)}/g): every marker of the path, in order
Matches(path) == SelectSeq(path, IsMarker)

\* s.replace(match, value): the first occurrence only
ReplaceFirst(s, match, value) ==
    IF \E i \in 1..Len(s) : s[i] = match
    THEN LET i == CHOOSE j \in 1..Len(s) : s[j] = match /\ \A h \in 1..(j - 1) : s[h] # match
         IN  SubSeq(s, 1, i - 1) \o value \o SubSeq(s, i + 1, Len(s))
    ELSE s

\* process.env[name]
EnvGet(environ, name) == IF name \in DOMAIN environ THEN environ[name] ELSE Undefined

\* an interpolation loop that skips a marker whose variable is missing
RECURSIVE InterpolateLenient(_, _, _)
InterpolateLenient(matches, resolvedPath, environ) ==
    IF matches = <<>> THEN [ok |-> TRUE, path |-> resolvedPath]
    ELSE LET value == EnvGet(environ, MarkerNames[Head(matches)])
         IN  IF Falsy(value)
             THEN InterpolateLenient(Tail(matches), resolvedPath, environ)
             ELSE InterpolateLenient(Tail(matches),
                                     ReplaceFirst(resolvedPath, Head(matches), value.s), environ)

\* the loop of lines 82-94: ok is FALSE when it returned early
RECURSIVE Interpolate(_, _, _)
Interpolate(matches, resolvedPath, environ) ==
    IF matches = <<>> THEN [ok |-> TRUE, path |-> resolvedPath]
    ELSE LET value == EnvGet(environ, MarkerNames[Head(matches)])
         IN  IF Falsy(value)
             THEN [ok |-> FALSE, path |-> resolvedPath]
             ELSE Interpolate(Tail(matches),
                              ReplaceFirst(resolvedPath, Head(matches), value.s), environ)

Whitespace == {" ", "\t", "\n"}

\* s.trim()
RECURSIVE Trim(_)
Trim(s) ==
    IF s = <<>> THEN s
    ELSE IF Head(s) \in Whitespace THEN Trim(Tail(s))
    ELSE IF s[Len(s)] \in Whitespace THEN Trim(DropLast(s))
    ELSE s

\* readFile(path, 'utf-8'): the file's text, or Undefined when the read throws
ReadFile(files, path) == IF path \in DOMAIN files THEN files[path] ELSE Undefined

\* requiredLength is 0 when the caller passes none.  The result holds the
\* secret (Undefined on every failure) and the paths readFile was called on.
loadSecretFromFile(path, requiredLength, environ, files) ==
    LET r == Interpolate(Matches(path), path, environ)
    IN  IF ~r.ok THEN [secret |-> Undefined, reads |-> <<>>]
        ELSE LET secret == ReadFile(files, r.path)
             IN  [reads  |-> <<r.path>>,
                  secret |->
                     IF secret = Undefined THEN Undefined
                     ELSE IF Len(Trim(secret.s)) = 0 THEN Undefined
                     ELSE IF requiredLength # 0 /\ Len(Trim(secret.s)) # requiredLength
                          THEN Undefined
                     ELSE Str(Trim(secret.s))]

-----------------------------------------------------------------------------
(* coalesceEnv: loader.ts 200-251.  The name of an environment variable is   *)
(* a sequence of tokens: the prefix "HEADPLANE_", upper-case words, and the  *)
(* "__" separator.                                                           *)

\* Object.values(envVariables): the variables the caller of loadConfig reads
envVariables ==
    { <<"HEADPLANE_", "CONFIG_PATH">>, <<"HEADPLANE_", "LOAD_ENV_OVERRIDES">> }

LowerCase ==
    [w \in {"DEBUG", "SERVER", "OIDC", "HEADSCALE", "COOKIE_SECRET", "COOKIE_SECURE",
            "CLIENT_ID", "URL", "CONFIG_STRICT", "CONFIG_PATH", "LOAD_ENV_OVERRIDES", "__"} |->
        CASE w = "DEBUG" -> "debug"
          [] w = "SERVER" -> "server"
          [] w = "OIDC" -> "oidc"
          [] w = "HEADSCALE" -> "headscale"
          [] w = "COOKIE_SECRET" -> "cookie_secret"
          [] w = "COOKIE_SECURE" -> "cookie_secure"
          [] w = "CLIENT_ID" -> "client_id"
          [] w = "URL" -> "url"
          [] w = "CONFIG_STRICT" -> "config_strict"
          [] w = "CONFIG_PATH" -> "config_path"
          [] w = "LOAD_ENV_OVERRIDES" -> "load_env_overrides"
          [] w = "__" -> "__"]

\* key.replace('HEADPLANE_', '').toLowerCase().split('__')
ConfigPath(key) ==
    LET lowered == [i \in 1..(Len(key) - 1) |-> LowerCase[key[i + 1]]]
    IN  SelectSeq(lowered, LAMBDA w : w # "__")

\* the filter of lines 205-220
Coalesced(environ) ==
    {key \in DOMAIN environ :
        /\ ~Falsy(environ[key])
        /\ key[1] = "HEADPLANE_"
        /\ key \notin envVariables}

\* a log line that prints the value itself
PlainLine(key, value) == key \o <<"=">> \o value

\* the log line of lines 225-228: the key, "=", one asterisk per character
MaskedLine(key, value) == key \o <<"=">> \o Chars(Len(value), "*")

LogLines(environ) == {MaskedLine(key, environ[key].s) : key \in Coalesced(environ)}

\* lines 230-240: walk or create the nested objects, assign at the last name
RECURSIVE Assign(_, _, _)
Assign(current, configPath, value) ==
    LET name == Head(configPath)
        rest == [k \in DOMAIN current.f \ {name} |-> current.f[k]]
    IN  IF Len(configPath) = 1
        THEN Obj((name :> value) @@ rest)
        ELSE Obj((name :> Assign(IF name \in DOMAIN current.f THEN current.f[name] ELSE Obj(NoProps),
                                 Tail(configPath), value)) @@ rest)

\* the loop of lines 223-241 over the coalesced variables (documents here
\* never hold two variables that decode to the same or to nested paths, so
\* the order of enumeration does not show)
RECURSIVE EnvConfig(_, _)
EnvConfig(keys, environ) ==
    IF keys = {} THEN Obj(NoProps)
    ELSE LET key == CHOOSE k \in keys : TRUE
         IN  Assign(EnvConfig(keys \ {key}, environ), ConfigPath(key), environ[key])

\* Undefined when the override fragment fails the partial schema
coalesceEnv(cfg, environ) ==
    LET toMerge == coalesceConfig(EnvConfig(Coalesced(environ), environ))
    IN  IF toMerge = Undefined THEN Undefined ELSE deepMerge(cfg, toMerge)

\* configDotenv({ override: true }): every entry of the .env file is set,
\* over any value the variable had
configDotenv(environ, dotenv) ==
    [k \in DOMAIN environ \cup DOMAIN dotenv |->
        IF k \in DOMAIN dotenv THEN dotenv[k] ELSE environ[k]]

-----------------------------------------------------------------------------
(* loadConfig: loader.ts 19-74, one step per stage *)

NotReturned == [t |-> "pending"]

CookieSecretFileLength == 32

\* validateConfigPath (140-150): access() succeeds
validateConfigPath(d) == d.config.status # "unreadable"

\* loadConfigFile (152-183): false when the read throws or the YAML has
\* errors, configYaml.toJSON() otherwise
loadConfigFile(d) ==
    IF d.config.status = "ok" THEN d.config.json ELSE Bool(FALSE)

\* { ...data, debug: log.debugEnabled }
WithDebug(d, debug) ==
    Obj([k \in OwnKeys(d) \cup {"debug"} |-> IF k = "debug" THEN Bool(debug) ELSE Prop(d, k)])

\* a loader that never takes the early return of line 60
EnvOverridesAlways(le) == FALSE

\* line 60: if (!loadEnv)
EnvOverridesDisabled(le) == ~le

Enter(stage) == trace' = Append(trace, stage)

\* exit(1)
Exit(stage) ==
    /\ pc' = "Exited"
    /\ exitCode' = 1
    /\ failed' = stage

ValidatePath ==
    /\ pc = "ValidatePath"
    /\ Enter("ValidatePath")
    /\ IF validateConfigPath(disk)
       THEN pc' = "ReadAndParseFile" /\ UNCHANGED <<failed, exitCode>>
       ELSE Exit("ValidatePath")
    /\ UNCHANGED <<call, ret, loadEnv, debugEnabled, disk, env, startEnv, data, config, resolved,
                   reads, returned>>

ReadAndParseFile ==
    /\ pc = "ReadAndParseFile"
    /\ Enter("ReadAndParseFile")
    /\ data' = loadConfigFile(disk)
    /\ IF Falsy(data')
       THEN Exit("ReadAndParseFile")
       ELSE pc' = "ValidateSchema" /\ UNCHANGED <<failed, exitCode>>
    /\ UNCHANGED <<call, ret, loadEnv, debugEnabled, disk, env, startEnv, config, resolved,
                   reads, returned>>

\* lines 31-34.  A pipe of the schema that throws is caught neither by
\* validateConfig nor by loadConfig: the promise loadConfig returned rejects.
ValidateSchema ==
    /\ pc = "ValidateSchema"
    /\ Enter("ValidateSchema")
    /\ LET c == validateConfig(WithDebug(data, debugEnabled))
       IN  IF c = Thrown
           THEN pc' = "Rejected" /\ failed' = "ValidateSchema" /\ UNCHANGED <<config, exitCode>>
           ELSE IF Falsy(c)
           THEN Exit("ValidateSchema") /\ UNCHANGED config
           ELSE pc' = "ResolveCookieSecret" /\ config' = c /\ UNCHANGED <<failed, exitCode>>
    /\ UNCHANGED <<call, ret, loadEnv, debugEnabled, disk, env, startEnv, data, resolved,
                   reads, returned>>

\* one of the three blocks of lines 36-58: the section and the path key it
\* tests, the key it assigns, the length it requires (0: none)
ResolveSecret(stage, section, pathKey, secretKey, requiredLength, next) ==
    /\ pc = stage
    /\ Enter(stage)
    /\ LET path == Prop(Prop(config, section), pathKey)
           r    == loadSecretFromFile(path.s, requiredLength, env, disk.files)
       IN  IF Falsy(path)
           THEN pc' = next /\ UNCHANGED <<config, reads, failed, exitCode>>
           ELSE /\ reads' = reads \o r.reads
                /\ IF Falsy(r.secret)
                   THEN Exit(stage) /\ UNCHANGED config
                   ELSE /\ config' = Assign(config, <<section, secretKey>>, r.secret)
                        /\ pc' = next
                        /\ UNCHANGED <<failed, exitCode>>
    /\ UNCHANGED <<call, ret, loadEnv, debugEnabled, disk, env, startEnv, data, resolved, returned>>

ResolveCookieSecret ==
    ResolveSecret("ResolveCookieSecret", "server", "cookie_secret_path", "cookie_secret",
                  CookieSecretFileLength, "ResolveClientSecret")

ResolveClientSecret ==
    ResolveSecret("ResolveClientSecret", "oidc", "client_secret_path", "client_secret",
                  0, "ResolveApiKey")

ResolveApiKey ==
    ResolveSecret("ResolveApiKey", "oidc", "headscale_api_key_path", "headscale_api_key",
                  0, "CheckLoadEnv")

\* lines 60-64
CheckLoadEnv ==
    /\ pc = "CheckLoadEnv"
    /\ resolved' = config
    /\ IF EnvOverridesDisabled(loadEnv)
       THEN pc' = "Done" /\ returned' = config
       ELSE pc' = "LoadDotEnvFile" /\ UNCHANGED returned
    /\ UNCHANGED <<call, ret, loadEnv, debugEnabled, disk, env, startEnv, data, config, reads, trace,
                   failed, exitCode>>

\* lines 66-67
LoadDotEnvFile ==
    /\ pc = "LoadDotEnvFile"
    /\ Enter("LoadDotEnvFile")
    /\ env' = configDotenv(env, disk.dotenv)
    /\ pc' = "CoalesceEnvOverrides"
    /\ UNCHANGED <<call, ret, loadEnv, debugEnabled, disk, startEnv, data, config, resolved, reads,
                   failed, exitCode, returned>>

\* lines 68-73
CoalesceEnvOverrides ==
    /\ pc = "CoalesceEnvOverrides"
    /\ Enter("CoalesceEnvOverrides")
    /\ LET c == coalesceEnv(config, env)
       IN  IF Falsy(c)
           THEN Exit("CoalesceEnvOverrides") /\ UNCHANGED <<config, returned>>
           ELSE /\ config' = c
                /\ returned' = c
                /\ pc' = "Done"
                /\ UNCHANGED <<failed, exitCode>>
    /\ UNCHANGED <<call, ret, loadEnv, debugEnabled, disk, env, startEnv, data, resolved, reads>>

Next ==
    \/ ValidatePath
    \/ ReadAndParseFile
    \/ ValidateSchema
    \/ ResolveCookieSecret
    \/ ResolveClientSecret
    \/ ResolveApiKey
    \/ CheckLoadEnv
    \/ LoadDotEnvFile
    \/ CoalesceEnvOverrides

-----------------------------------------------------------------------------
(* Inputs of loadConfig *)

K32   == Chars(32, "k")
Short == Chars(5, "k")

CookiePath       == <<"/", "c">>
CookieMarkerPath == <<"${SECRETS_DIR}", "/", "c">>
SecretsDir       == <<"/", "s">>
ClientSecretPath == <<"/", "o">>
ApiKeyPath       == <<"/", "a">>

UrlHost == UrlScheme \o <<"x">>

ServerBase ==
    [host |-> Str(<<"0", ".", "0">>), port |-> Str(<<"8", "0">>), cookie_secure |-> Bool(TRUE)]

CookiePairs ==
    { NoProps,
      [cookie_secret |-> Null],
      [cookie_secret |-> Str(Short)],
      [cookie_secret |-> Str(K32)],
      [cookie_secret_path |-> Str(CookiePath)],
      [cookie_secret |-> Str(K32), cookie_secret_path |-> Str(CookiePath)],
      [cookie_secret |-> Null, cookie_secret_path |-> Str(CookiePath)],
      [cookie_secret |-> Null, cookie_secret_path |-> Str(CookieMarkerPath)],
      [cookie_secret |-> Null, cookie_secret_path |-> Str(<<>>)] }

OidcBase ==
    [issuer |-> Str(UrlHost), client_id |-> Str(<<"i">>),
     token_endpoint_auth_method |-> Str(<<"b">>), disable_api_key_login |-> Bool(FALSE)]

OidcSections ==
    { Obj(OidcBase @@ [client_secret |-> Str(<<"x">>), headscale_api_key |-> Str(<<"y">>)]),
      Obj(OidcBase @@ [client_secret |-> Null, client_secret_path |-> Str(ClientSecretPath),
                       headscale_api_key |-> Str(<<"y">>)]),
      Obj(OidcBase @@ [client_secret |-> Str(<<"x">>),
                       headscale_api_key_path |-> Str(ApiKeyPath)]) }

LoaderDocs ==
    {Null, Num(5)} \cup
    {Obj(o @@ [server |-> Obj(ServerBase @@ c),
               headscale |-> Obj([url |-> Str(u), config_strict |-> Bool(TRUE)])]) :
        c \in CookiePairs,
        o \in {NoProps} \cup {[oidc |-> x] : x \in OidcSections},
        u \in {UrlHost, UrlHost \o <<"/">>}}

ConfigFiles ==
    {[status |-> "unreadable"], [status |-> "unparsable"]}
        \cup {[status |-> "ok", json |-> d] : d \in LoaderDocs}

CookieFiles(x) == (CookiePath :> Str(x)) @@ ((SecretsDir \o CookiePath) :> Str(x))

ClientSecretFile == ClientSecretPath :> Str(<<"x", "\n">>)

SecretFiles ==
    { NoProps,
      CookieFiles(<<" ", "\n">>) @@ ClientSecretFile,
      CookieFiles(Short) @@ ClientSecretFile,
      CookieFiles(<<" ">> \o K32 \o <<"\n">>) @@ ClientSecretFile,
      CookieFiles(<<" ">> \o K32 \o <<"\n">>) }

RequiredOverrides ==
    (<<"HEADPLANE_", "DEBUG">> :> Str(<<"1">>))
        @@ (<<"HEADPLANE_", "SERVER", "__", "COOKIE_SECURE">> :> Str(<<"1">>))
        @@ (<<"HEADPLANE_", "HEADSCALE", "__", "CONFIG_STRICT">> :> Str(<<"1">>))

Overrides ==
    { NoProps,
      <<"HEADPLANE_", "CONFIG_PATH">> :> Str(<<"/", "p">>),
      <<"HEADPLANE_", "OIDC", "__", "CLIENT_ID">> :> Str(<<"j">>),
      RequiredOverrides,
      RequiredOverrides @@ (<<"HEADPLANE_", "OIDC", "__", "CLIENT_ID">> :> Str(<<"j">>)),
      RequiredOverrides @@ (<<"HEADPLANE_", "SERVER", "__", "COOKIE_SECRET">> :> Str(Short)),
      RequiredOverrides @@ (<<"HEADPLANE_", "HEADSCALE", "__", "URL">> :> Str(UrlHost \o <<"/">>)) }

Environments ==
    {i @@ o : i \in {NoProps, <<"SECRETS_DIR">> :> Str(SecretsDir)}, o \in Overrides}

DotEnvFiles ==
    { NoProps,
      (<<"SECRETS_DIR">> :> Str(SecretsDir)) @@ (<<"HEADPLANE_", "DEBUG">> :> Str(<<>>)) }

LoaderIdle ==
    /\ loadEnv = FALSE
    /\ debugEnabled = FALSE
    /\ disk = NoProps
    /\ env = NoProps
    /\ startEnv = NoProps
    /\ data = Undefined
    /\ config = Undefined
    /\ resolved = Undefined
    /\ reads = <<>>
    /\ trace = <<>>
    /\ failed = ""
    /\ exitCode = -1
    /\ returned = NotReturned

Init ==
    /\ pc = "ValidatePath"
    /\ call = Undefined
    /\ ret = Undefined
    /\ loadEnv \in BOOLEAN
    /\ debugEnabled \in BOOLEAN
    /\ disk \in [config : ConfigFiles, files : SecretFiles, dotenv : DotEnvFiles]
    /\ env \in Environments
    /\ startEnv = env
    /\ data = Undefined
    /\ config = Undefined
    /\ resolved = Undefined
    /\ reads = <<>>
    /\ trace = <<>>
    /\ failed = ""
    /\ exitCode = -1
    /\ returned = NotReturned

Spec == Init /\ [][Next]_vars

-----------------------------------------------------------------------------
(* C1, C3, C4, C10: loadConfig *)

StageOrder ==
    << "ValidatePath", "ReadAndParseFile", "ValidateSchema", "ResolveCookieSecret",
       "ResolveClientSecret", "ResolveApiKey", "LoadDotEnvFile", "CoalesceEnvOverrides" >>

\* the stages entered so far are the first stages of the order, each once
InOrder == Len(trace) <= Len(StageOrder) /\ trace = SubSeq(StageOrder, 1, Len(trace))

\* C1 as claimed: the stages run in order, none twice, and a stage that
\* fails ends the process with exit status 1, with no later stage entered
\* and no document returned.
C1_StagesInOrderFailureExits ==
    /\ InOrder
    /\ failed # "" =>
          /\ pc = "Exited"
          /\ exitCode = 1
          /\ trace[Len(trace)] = failed
          /\ returned = NotReturned
    /\ returned # NotReturned => failed = "" /\ exitCode = -1

\* every value the fragment sets is valid for its field, whatever is missing
RECURSIVE ValuesValid(_, _)
ValuesValid(name, v) ==
    /\ v.t = "object"
    /\ \A i \in 1..Len(SchemaOf(name)) :
          LET f == SchemaOf(name)[i]
          IN  f.key \in DOMAIN v.f =>
                 IF f.kind = "object" THEN ValuesValid(f.sub, v.f[f.key])
                 ELSE Fits(f.kind, f.sub, v.f[f.key])

\* C3 as claimed: every field of the partial schema is optional, so an
\* override fragment whose values are each valid, the empty fragment
\* included, passes coalesceConfig and coalesceEnv yields a merged document:
\* the CoalesceEnvOverrides stage does not fail on it.
C3_PartialAllOptional ==
    failed = "CoalesceEnvOverrides" =>
        ~ValuesValid("partialHeadplaneConfig", EnvConfig(Coalesced(env), env))

\* C4: with loadEnv false, loadConfig returns the document as secret
\* resolution left it; the .env file is not loaded, process.env is as it was,
\* coalesceEnv is not called, so no HEADPLANE_ override reaches the document.
C4_EnvSkipped ==
    pc = "Done" /\ ~loadEnv =>
        /\ returned = resolved
        /\ env = startEnv
        /\ \A i \in 1..Len(trace) : trace[i] \notin {"LoadDotEnvFile", "CoalesceEnvOverrides"}
        /\ \A k \in Coalesced(env) :
              ConfigPath(k) = <<"server", "cookie_secret">> =>
                  Prop(Prop(returned, "server"), "cookie_secret") # env[k]

C4_Witness ==
    /\ pc = "Done"
    /\ ~loadEnv
    /\ returned = resolved
    /\ disk.dotenv # NoProps
    /\ <<"HEADPLANE_", "SERVER", "__", "COOKIE_SECRET">> \in DOMAIN env
    /\ Prop(Prop(returned, "server"), "cookie_secret") = Str(K32)
    /\ Len(reads) = 1

\* C10 as claimed: whatever the source of the cookie secret, the document
\* loadConfig returns holds a server.cookie_secret of exactly 32 characters.
C10_CookieSecretLength ==
    pc = "Done" =>
        LET secret == Prop(Prop(returned, "server"), "cookie_secret")
        IN  secret.t = "string" /\ Len(secret.s) = CookieSecretLength

-----------------------------------------------------------------------------
(* Inputs of the deepMerge specification *)

MaxArrayLen == 2

MergePrims == {Str(<<"a">>), Num(9000)}

RECURSIVE SeqsUpTo(_, _)
SeqsUpTo(S, n) ==
    IF n = 0 THEN {<<>>}
    ELSE LET shorter == SeqsUpTo(S, n - 1)
         IN  shorter \cup {Append(q, x) : q \in {r \in shorter : Len(r) = n - 1}, x \in S}

MergeArrays == {Arr(e) : e \in SeqsUpTo(MergePrims, MaxArrayLen)}

MergeAtoms == {Undefined, Null} \cup MergePrims \cup MergeArrays

MergeSections ==
    {Obj(p @@ h) : p \in {NoProps} \cup {[port |-> v] : v \in MergeAtoms},
                   h \in {NoProps, [host |-> Str(<<"h">>)], [host |-> Num(0)]}}

MergeValues == MergeAtoms \cup MergeSections

MergeDocs ==
    {Obj(s @@ d) : s \in {NoProps} \cup {[server |-> v] : v \in MergeValues},
                   d \in {NoProps, [debug |-> Bool(TRUE)]}}

InitMerge ==
    /\ pc = "deepMerge"
    /\ call \in [target : MergeDocs, source : MergeDocs]
    /\ ret = Undefined
    /\ LoaderIdle

Merge ==
    /\ pc = "deepMerge"
    /\ ret' = deepMerge(call.target, call.source)
    /\ pc' = "merged"
    /\ UNCHANGED <<call, loaderVars>>

NextMerge == Merge

SpecMerge == InitMerge /\ [][NextMerge]_vars

-----------------------------------------------------------------------------
(* C5, C9 *)

IsMapping(v) == v.t = "object"
IsScalar(v) == v.t \in {"string", "number", "boolean"}

\* base keys the override does not have keep their value, level by level,
\* and scalar override leaves are taken
RECURSIVE Retains(_, _, _)
Retains(base, override, out) ==
    /\ IsMapping(out)
    /\ \A k \in OwnKeys(base) :
          IF k \notin OwnKeys(override)
          THEN k \in OwnKeys(out) /\ Prop(out, k) = Prop(base, k)
          ELSE IsMapping(Prop(base, k)) /\ IsMapping(Prop(override, k))
                  => Retains(Prop(base, k), Prop(override, k), Prop(out, k))
    /\ \A k \in OwnKeys(override) :
          IsScalar(Prop(override, k)) => Prop(out, k) = Prop(override, k)

RECURSIVE Overwrites(_, _, _)
Overwrites(base, override, out) ==
    \A k \in OwnKeys(override) :
        LET v == Prop(override, k)
        IN  /\ v.t = "array" => Prop(out, k) = v
            /\ IsMapping(v) /\ IsMapping(Prop(base, k)) /\ IsMapping(Prop(out, k))
                  => Overwrites(Prop(base, k), v, Prop(out, k))

C9_ArrayOverwrites ==
    pc = "merged" => Overwrites(call.target, call.source, ret)

-----------------------------------------------------------------------------
(* The schema specification: headplaneConfig and partialHeadplaneConfig      *)
(* applied to documents that differ in the three secret pairs and in the     *)
(* trailing slashes of headscale.url.                                        *)

MaxSlashes == 2

Slashes(n) == Chars(n, "/")

\* the inline value missing, null or set, with the path missing or set
PairChoices(inlineKey, value, pathKey, path) ==
    {[k \in D |-> Str(path)] : D \in {{}, {pathKey}}} \cup
    {[k \in D \cup {inlineKey} |-> IF k = inlineKey THEN v ELSE Str(path)] :
        D \in {{}, {pathKey}}, v \in {Null, Str(value)}}

SchemaOidcSections ==
    {Obj(OidcBase @@ c @@ a) :
        c \in PairChoices("client_secret", <<"x">>, "client_secret_path", ClientSecretPath),
        a \in PairChoices("headscale_api_key", <<"y">>, "headscale_api_key_path", ApiKeyPath)}

SchemaDocs ==
    {Obj(o @@ [debug |-> Bool(FALSE),
               server |-> Obj(ServerBase @@ c),
               headscale |-> Obj([url |-> Str(UrlHost \o Slashes(n)), config_strict |-> Bool(TRUE)])]) :
        c \in PairChoices("cookie_secret", K32, "cookie_secret_path", CookiePath),
        o \in {[oidc |-> x] : x \in SchemaOidcSections},
        n \in 0..MaxSlashes}

\* override fragments as coalesceEnv builds them: any of these variables set
FragmentVariables(n) ==
    RequiredOverrides
        @@ (<<"HEADPLANE_", "OIDC", "__", "CLIENT_ID">> :> Str(<<"j">>))
        @@ (<<"HEADPLANE_", "SERVER", "__", "COOKIE_SECRET">> :> Str(Short))
        @@ (<<"HEADPLANE_", "HEADSCALE", "__", "URL">> :> Str(UrlHost \o Slashes(n)))

Fragments ==
    {EnvConfig(D, FragmentVariables(n)) :
        D \in SUBSET DOMAIN FragmentVariables(0), n \in 0..MaxSlashes}

InitSchema ==
    /\ pc = "validate"
    /\ call \in [type : {"headplaneConfig"}, input : SchemaDocs]
                \cup [type : {"partialHeadplaneConfig"}, input : Fragments]
    /\ ret = Undefined
    /\ LoaderIdle

ApplyFull ==
    /\ pc = "validate"
    /\ call.type = "headplaneConfig"
    /\ ret' = headplaneConfig(call.input)
    /\ pc' = "validated"
    /\ UNCHANGED <<call, loaderVars>>

ApplyPartial ==
    /\ pc = "validate"
    /\ call.type = "partialHeadplaneConfig"
    /\ ret' = partialHeadplaneConfig(call.input)
    /\ pc' = "validated"
    /\ UNCHANGED <<call, loaderVars>>

NextSchema == ApplyFull \/ ApplyPartial

SpecSchema == InitSchema /\ [][NextSchema]_vars

Passed(r) == r.t = "object"

\* in the section, exactly one of the inline value and the path is set
ExactlyOne(section, inlineKey, pathKey) ==
    (Prop(section, inlineKey).t = "string") # (pathKey \in OwnKeys(section))

\* C2 as claimed: an otherwise valid document passes the full schema exactly
\* when, in each of the three secret pairs, one of the inline value and the
\* path is set and the other is not: both set fails, neither set fails,
\* either one alone passes.
C2_ExactlyOneOfEachPair ==
    pc = "validated" /\ call.type = "headplaneConfig" =>
        (Passed(ret) <=>
            /\ ExactlyOne(Prop(call.input, "server"), "cookie_secret", "cookie_secret_path")
            /\ ExactlyOne(Prop(call.input, "oidc"), "client_secret", "client_secret_path")
            /\ ExactlyOne(Prop(call.input, "oidc"), "headscale_api_key", "headscale_api_key_path"))

\* C7 as claimed: the headscale.url of every document that passes the full
\* schema, and of every fragment that passes the partial schema, has no
\* trailing slash.
C7_NoTrailingSlash ==
    pc = "validated" /\ Passed(ret) /\ "url" \in OwnKeys(Prop(ret, "headscale")) =>
        ~EndsWith(Prop(Prop(ret, "headscale"), "url").s, "/")

-----------------------------------------------------------------------------
(* The secret specification: loadSecretFromFile on paths of up to            *)
(* MaxPathLen tokens, with each variable unset, empty, set, or set to text   *)
(* that itself holds a marker.                                               *)

MaxPathLen == 3

PathTokens == {"/", "c", "${SECRETS_DIR}", "${STATE}"}

SecretPaths == SeqsUpTo(PathTokens, MaxPathLen) \ {<<>>}

SecretEnvironments ==
    {d @@ t :
        d \in {NoProps} \cup {<<"SECRETS_DIR">> :> Str(v) : v \in {<<>>, SecretsDir, <<"${STATE}">>}},
        t \in {NoProps} \cup {<<"STATE">> :> Str(v) : v \in {<<>>, <<"t">>}}}

InitSecret ==
    /\ pc = "loadSecretFromFile"
    /\ call \in [path : SecretPaths, requiredLength : {0, CookieSecretFileLength},
                 env : SecretEnvironments,
                 files : {NoProps, CookieFiles(<<" ">> \o K32 \o <<"\n">>)}]
    /\ ret = Undefined
    /\ LoaderIdle

Resolve ==
    /\ pc = "loadSecretFromFile"
    /\ ret' = loadSecretFromFile(call.path, call.requiredLength, call.env, call.files)
    /\ pc' = "resolved"
    /\ UNCHANGED <<call, loaderVars>>

NextSecret == Resolve

SpecSecret == InitSecret /\ [][NextSecret]_vars

\* the names the markers of the path refer to
Referenced(path) == {MarkerNames[path[i]] : i \in {j \in 1..Len(path) : IsMarker(path[j])}}

\* the path with every marker replaced by its variable's value
RECURSIVE Interpolated(_, _)
Interpolated(path, environ) ==
    IF path = <<>> THEN <<>>
    ELSE (IF IsMarker(Head(path)) THEN environ[MarkerNames[Head(path)]].s ELSE <<Head(path)>>)
            \o Interpolated(Tail(path), environ)

HoldsMarker(value) == \E i \in 1..Len(value) : IsMarker(value[i])

\* C6 as claimed: a path with markers of which one names an unset variable
\* makes the resolver fail without a file read; when every variable named is
\* set, one read is issued, on the path with every marker replaced by its
\* variable's value.
C6_UnsetFailsSetReads ==
    pc = "resolved" /\ Referenced(call.path) # {} =>
        IF \E name \in Referenced(call.path) : name \notin DOMAIN call.env
        THEN ret.secret = Undefined /\ ret.reads = <<>>
        ELSE ret.reads = <<Interpolated(call.path, call.env)>>

\* C6 amended: a variable that is unset or set to the empty string makes the
\* resolver fail without a file read; when every variable named is set to a
\* non-empty value, exactly one read is issued, and where no value holds "$"
\* it is on the path with every marker replaced by its variable's value.
C6_MissingFailsSetReads ==
    pc = "resolved" /\ Referenced(call.path) # {} =>
        IF \E name \in Referenced(call.path) : Falsy(EnvGet(call.env, name))
        THEN ret.secret = Undefined /\ ret.reads = <<>>
        ELSE /\ Len(ret.reads) = 1
             /\ (\A name \in Referenced(call.path) : ~HoldsMarker(call.env[name].s))
                   => ret.reads = <<Interpolated(call.path, call.env)>>

C6_Witness ==
    /\ pc = "resolved"
    /\ call.path = <<"${SECRETS_DIR}", "/", "${STATE}">>
    /\ call.env = (<<"SECRETS_DIR">> :> Str(SecretsDir))
    /\ call.files # NoProps
    /\ ret.reads = <<>>
    /\ ret.secret = Undefined

-----------------------------------------------------------------------------
(* The log specification: the lines coalesceEnv logs in two runs whose       *)
(* environments differ in the value of one override variable.                *)

MaxValueLen == 3

OverrideValues == SeqsUpTo({"a", "*"}, MaxValueLen) \ {<<>>}

OverrideKeys ==
    { <<"HEADPLANE_", "DEBUG">>,
      <<"HEADPLANE_", "SERVER", "__", "COOKIE_SECRET">>,
      <<"HEADPLANE_", "OIDC", "__", "CLIENT_ID">> }

InitLog ==
    /\ pc = "coalesceEnv"
    /\ call \in [key : OverrideKeys, first : OverrideValues, second : OverrideValues,
                 rest : {NoProps, <<"HEADPLANE_", "HEADSCALE", "__", "CONFIG_STRICT">> :> Str(<<"1">>)}]
    /\ ret = Undefined
    /\ LoaderIdle

CoalesceTwice ==
    /\ pc = "coalesceEnv"
    /\ ret' = [first  |-> LogLines((call.key :> Str(call.first)) @@ call.rest),
               second |-> LogLines((call.key :> Str(call.second)) @@ call.rest)]
    /\ pc' = "logged"
    /\ UNCHANGED <<call, loaderVars>>

NextLog == CoalesceTwice

SpecLog == InitLog /\ [][NextLog]_vars

\* C8 as claimed: the mask has a fixed width, so two runs that differ only in
\* the value of one override variable log the same lines.
C8_SameLines ==
    pc = "logged" => ret.first = ret.second

\* C8 amended: the mask holds one asterisk per character of the value: the
\* line is the variable's name, "=" and as many asterisks as the value is
\* long, so the two runs log the same lines exactly when the two values
\* have the same length.
C8_MaskedByLength ==
    pc = "logged" =>
        /\ (call.key \o <<"=">> \o Chars(Len(call.first), "*")) \in ret.first
        /\ Cardinality(ret.first) = Cardinality(DOMAIN call.rest) + 1
        /\ (ret.first = ret.second) <=> (Len(call.first) = Len(call.second))

C8_Witness ==
    /\ pc = "logged"
    /\ call.first = <<"a", "a">>
    /\ call.second = <<"*", "a">>
    /\ call.rest # NoProps
    /\ ret.first = ret.second
    /\ Cardinality(ret.first) = 2

====
